---- MODULE Spec2Model ----
(***************************************************************************)
(* The crossword CSP solver of crossword/generate.py (CrosswordCreator):   *)
(* node consistency, AC-3 and heuristic backtracking search, as a state    *)
(* machine.  Words are sequences of letters; Python's 0-based word[k] is   *)
(* word[k + 1] here.  Python sets and dicts iterate in an order the        *)
(* program does not control (string hashes are randomised per run), so     *)
(* every place where the code depends on such an order is a               *)
(* nondeterministic choice over all orders.  A client either calls         *)
(* solve(), or enforce_node_consistency() and then backtrack(dict()); the  *)
(* domains are node consistent before any word is indexed.                 *)
(***************************************************************************)
EXTENDS FiniteSets, Integers, Sequences, TLC

VARIABLES
    crossword,   \* self.crossword: [variables, words], fixed after __init__
    mode,        \* which public method the client calls after __init__
    domains,     \* self.domains: variable -> reference to a set object
    heap,        \* set object (reference) -> the words it currently holds
    pc,          \* position of the running call
    queue,       \* ac3's local `queue` (a list, or a set when arcs is given)
    stack,       \* the active backtrack calls, innermost last
    arg,         \* the assignment passed to the backtrack call being entered
    ret,         \* the value the last finished backtrack call returned
    ac3_ret,     \* the value the last ac3 call returned, per call site
    last         \* the last call a client made itself: method, arguments,
                 \* value returned, and what the domains held before it

vars == <<crossword, mode, domains, heap, pc, queue, stack, arg, ret, ac3_ret,
          last>>

----------------------------------------------------------------------------
(* Bounds of the model.                                                    *)

\* Largest vocabulary (number of words in crossword.words).
MaxWords == 4

\* Letters and lengths of the words a vocabulary is drawn from.
Alphabet == {"a", "b"}
WordLengths == {2, 3}
WordPool == UNION {[1..n -> Alphabet] : n \in WordLengths}

----------------------------------------------------------------------------
(* The grid model (crossword.py, a collaborator of the solver).            *)

ACROSS == "across"
DOWN == "down"

Variable(i, j, direction, length) ==
    [i |-> i, j |-> j, direction |-> direction, length |-> length]

\* Variable.cells: the k-th cell of the run, k = 0 .. length - 1.
Cell(v, k) ==
    <<v.i + (IF v.direction = DOWN THEN k ELSE 0),
      v.j + (IF v.direction = ACROSS THEN k ELSE 0)>>

None == <<>>

\* Crossword.overlaps[x, y]: None, or (index in x, index in y) of the shared cell.
overlaps(x, y) ==
    LET shared == {p \in (0..(x.length - 1)) \X (0..(y.length - 1)) :
                       Cell(x, p[1]) = Cell(y, p[2])}
    IN  IF shared = {} THEN None ELSE CHOOSE p \in shared : TRUE

\* Crossword.neighbors(var): the variables that overlap var.
neighbors(var) ==
    {v \in crossword.variables \ {var} : overlaps(v, var) # None}

\* The grids the solver is run on.
GridSingle == {Variable(0, 0, ACROSS, 2)}
GridCross == {Variable(1, 0, ACROSS, 2), Variable(0, 1, DOWN, 3)}
GridApart == {Variable(0, 0, ACROSS, 2), Variable(2, 0, ACROSS, 2)}
GridChain == {Variable(0, 0, ACROSS, 3), Variable(0, 0, DOWN, 2),
              Variable(0, 2, DOWN, 3)}
Grids == {GridSingle, GridCross, GridApart, GridChain}

Vocabularies == {W \in SUBSET WordPool : Cardinality(W) <= MaxWords}

----------------------------------------------------------------------------
(* Helpers for Python values.                                              *)

Range(s) == {s[k] : k \in 1..Len(s)}

RECURSIVE Orders(_)
\* Every order in which a Python set can be iterated.
Orders(S) ==
    IF S = {}
    THEN {<<>>}
    ELSE UNION {{<<x>> \o p : p \in Orders(rest)} : <<x, rest>> \in {<<y, S \ {y}>> : y \in S}}

\* d[k] = v on a dict.
Put(d, k, v) == [x \in (DOMAIN d) \cup {k} |-> IF x = k THEN v ELSE d[x]]

\* The words self.domains[v] holds.
Dom(v) == heap[domains[v]]

EmptyList == [isSet |-> FALSE, list |-> <<>>, set |-> {}]
NoValue == [kind |-> "unset", value |-> <<>>]

Modes == {"solve", "backtrack"}

\* No call made yet; `store` is what the domains hold.
NoCall(store) ==
    [op |-> "none", args |-> <<>>, value |-> "none", before |-> store,
     at |-> "start"]

----------------------------------------------------------------------------
(* __init__: every variable gets its own copy of the vocabulary.           *)

Init ==
    /\ crossword \in [variables : Grids, words : Vocabularies]
    /\ mode \in Modes
    /\ domains = [var \in crossword.variables |-> var]
    /\ heap = [var \in crossword.variables |-> crossword.words]
    /\ pc = "start"
    /\ queue = EmptyList
    /\ stack = <<>>
    /\ arg = <<>>
    /\ ret = NoValue
    /\ ac3_ret = [full |-> "unset", seeded |-> "unset"]
    /\ last = NoCall(heap)

----------------------------------------------------------------------------
(* enforce_node_consistency                                                *)

\* enforce_node_consistency with `>` for `!=` at line 105.
node_consistent_gt(var, words) == {word \in words : ~(Len(word) > var.length)}

\* enforce_node_consistency with a break after the removal at line 106: each
\* call removes one wrong-length word of a domain.
node_consistent_break(var, words) ==
    LET wrong == {word \in words : Len(word) # var.length}
    IN  IF wrong = {} THEN words ELSE words \ {CHOOSE word \in wrong : TRUE}

\* enforce_node_consistency with `<` for `!=` at line 105.
node_consistent_lt(var, words) == {word \in words : ~(Len(word) < var.length)}

node_consistent(var, words) == {word \in words : Len(word) = var.length}

enforce_node_consistency ==
    /\ pc = "start" \/ (mode = "client" /\ pc = "node_done")
    /\ heap' = [r \in DOMAIN heap |->
                  IF \E var \in crossword.variables : domains[var] = r
                  THEN node_consistent(CHOOSE var \in crossword.variables :
                                           domains[var] = r, heap[r])
                  ELSE heap[r]]
    /\ pc' = "node_done"
    /\ last' = [op |-> "enforce_node_consistency", args |-> <<>>,
                value |-> "None", before |-> heap, at |-> pc]
    /\ UNCHANGED <<crossword, mode, domains, queue, stack, arg, ret, ac3_ret>>

----------------------------------------------------------------------------
(* revise                                                                  *)

\* revise demanding that every word of domain(y) agrees (lines 125-130).
revise_keep_all(x, y) ==
    LET overlap == overlaps(x, y)
    IN  IF overlap = None
        THEN Dom(x)
        ELSE {x_word \in Dom(x) :
                 \A y_word \in Dom(y) :
                     x_word[overlap[1] + 1] = y_word[overlap[2] + 1]}

\* revise with the overlap indices exchanged at line 126.
revise_keep_swapped(x, y) ==
    LET overlap == overlaps(x, y)
    IN  IF overlap = None
        THEN Dom(x)
        ELSE {x_word \in Dom(x) :
                 \E y_word \in Dom(y) :
                     x_word[overlap[2] + 1] = y_word[overlap[1] + 1]}

\* The words of domain(x) that revise(x, y) keeps.
revise_keep(x, y) ==
    LET overlap == overlaps(x, y)
    IN  IF overlap = None
        THEN Dom(x)
        ELSE {x_word \in Dom(x) :
                 \E y_word \in Dom(y) :
                     x_word[overlap[1] + 1] = y_word[overlap[2] + 1]}

\* revise without `revised = True` at the removal of a word.
revise_unflagged(x, y) ==
    [revised |-> FALSE,
     heap |-> [heap EXCEPT ![domains[x]] = revise_keep(x, y)]]

\* revise with `revised = True` outside the test of line 130: every call on
\* an overlapping pair reports a revision.
revise_flagged(x, y) ==
    [revised |-> overlaps(x, y) # None,
     heap |-> [heap EXCEPT ![domains[x]] = revise_keep(x, y)]]

\* revise(x, y): the value returned and the heap it leaves.
revise(x, y) ==
    LET keep == revise_keep(x, y)
    IN  [revised |-> keep # Dom(x),
         heap |-> [heap EXCEPT ![domains[x]] = keep]]

----------------------------------------------------------------------------
(* ac3                                                                     *)

\* The initial queue with the arcs that start at an across slot only.
all_arcs_across ==
    {a \in crossword.variables \X crossword.variables :
        a[1] # a[2] /\ overlaps(a[1], a[2]) # None /\ a[1].direction = ACROSS}

\* Every arc of the problem: the keys of overlaps whose value is not None.
all_arcs ==
    {a \in crossword.variables \X crossword.variables :
        a[1] # a[2] /\ overlaps(a[1], a[2]) # None}

\* ac3 without lines 156-160: no arc is queued again after a revision.
enqueue_none(q, x, ns, k) == q

\* ac3 without lines 159-160: only the arcs (x, neighbor) are queued again.
enqueue_one_way(q, x, ns, k) == q \o [i \in 1..Len(ns) |-> <<x, ns[i]>>]

RECURSIVE enqueue(_, _, _, _)
\* Lines 156-160 on a list: for each neighbor in iteration order `ns`,
\* append (x, neighbor) and (neighbor, x) unless already queued.
enqueue(q, x, ns, k) ==
    IF k > Len(ns)
    THEN q
    ELSE LET q1 == IF <<x, ns[k]>> \in Range(q)
                   THEN q ELSE Append(q, <<x, ns[k]>>)
             q2 == IF <<ns[k], x>> \in Range(q1)
                   THEN q1 ELSE Append(q1, <<ns[k], x>>)
         IN  enqueue(q2, x, ns, k + 1)

\* Lines 156-160 on a set: the first arc found missing is appended, and a
\* set has no append.
append_on_set(q, x) ==
    \E neighbor \in neighbors(x) : <<x, neighbor>> \notin q \/ <<neighbor, x>> \notin q

\* Where ac3 returns to: solve (line 93) or the backtrack call on top.
ac3_site == IF stack = <<>> THEN "full" ELSE "seeded"

ac3_return(value) ==
    /\ pc' = "ac3_done"
    /\ queue' = EmptyList
    /\ ac3_ret' = [ac3_ret EXCEPT ![ac3_site] = value]

\* ac3 without lines 153-154: an emptied domain does not end the loop.
ac3_iterate_on ==
    /\ pc = "ac3_loop"
    /\ IF queue.isSet THEN queue.set # {} ELSE queue.list # <<>>
    /\ \E arc \in (IF queue.isSet THEN queue.set
                   ELSE {queue.list[Len(queue.list)]}) :
         LET rest == IF queue.isSet
                     THEN [queue EXCEPT !.set = @ \ {arc}]
                     ELSE [queue EXCEPT !.list = SubSeq(@, 1, Len(@) - 1)]
             r == revise(arc[1], arc[2])
         IN  /\ heap' = r.heap
             /\ IF ~r.revised
                THEN /\ queue' = rest
                     /\ UNCHANGED <<pc, ret, ac3_ret>>
                ELSE IF queue.isSet
                THEN IF append_on_set(rest.set, arc[1])
                     THEN /\ pc' = "raised"
                          /\ ret' = [kind |-> "AttributeError", value |-> <<>>]
                          /\ queue' = rest
                          /\ UNCHANGED ac3_ret
                     ELSE /\ queue' = rest
                          /\ UNCHANGED <<pc, ret, ac3_ret>>
                ELSE /\ \E ns \in Orders(neighbors(arc[1])) :
                          queue' = [rest EXCEPT !.list = enqueue(@, arc[1], ns, 1)]
                     /\ UNCHANGED <<pc, ret, ac3_ret>>
    /\ UNCHANGED <<crossword, mode, domains, stack, arg, last>>

\* One iteration of the while loop of ac3 (lines 149-160).
ac3_iterate ==
    /\ pc = "ac3_loop"
    /\ IF queue.isSet THEN queue.set # {} ELSE queue.list # <<>>
    /\ \E arc \in (IF queue.isSet THEN queue.set
                   ELSE {queue.list[Len(queue.list)]}) :
         LET rest == IF queue.isSet
                     THEN [queue EXCEPT !.set = @ \ {arc}]
                     ELSE [queue EXCEPT !.list = SubSeq(@, 1, Len(@) - 1)]
             r == revise(arc[1], arc[2])
         IN  /\ heap' = r.heap
             /\ IF ~r.revised
                THEN /\ queue' = rest
                     /\ UNCHANGED <<pc, ret, ac3_ret>>
                ELSE IF r.heap[domains[arc[1]]] = {}
                THEN /\ ac3_return("False")
                     /\ UNCHANGED ret
                ELSE IF queue.isSet
                THEN IF append_on_set(rest.set, arc[1])
                     THEN /\ pc' = "raised"
                          /\ ret' = [kind |-> "AttributeError", value |-> <<>>]
                          /\ queue' = rest
                          /\ UNCHANGED ac3_ret
                     ELSE /\ queue' = rest
                          /\ UNCHANGED <<pc, ret, ac3_ret>>
                ELSE /\ \E ns \in Orders(neighbors(arc[1])) :
                          queue' = [rest EXCEPT !.list = enqueue(@, arc[1], ns, 1)]
                     /\ UNCHANGED <<pc, ret, ac3_ret>>
    /\ UNCHANGED <<crossword, mode, domains, stack, arg, last>>

\* The queue is empty: return True (line 161).
ac3_exit ==
    /\ pc = "ac3_loop"
    /\ IF queue.isSet THEN queue.set = {} ELSE queue.list = <<>>
    /\ ac3_return("True")
    /\ UNCHANGED <<crossword, mode, domains, heap, stack, arg, ret, last>>

----------------------------------------------------------------------------
(* solve                                                                   *)

\* Line 93: self.ac3() with arcs = None; the queue lists every arc.
solve_ac3 ==
    /\ pc = "node_done"
    /\ mode = "solve"
    /\ \E q \in Orders(all_arcs) :
          queue' = [isSet |-> FALSE, list |-> q, set |-> {}]
    /\ pc' = "ac3_loop"
    /\ UNCHANGED <<crossword, mode, domains, heap, stack, arg, ret, ac3_ret, last>>

\* Line 94: self.backtrack(dict()), whatever ac3 returned.
solve_backtrack ==
    /\ pc = "ac3_done"
    /\ stack = <<>>
    /\ arg' = <<>>
    /\ pc' = "bt_call"
    /\ UNCHANGED <<crossword, mode, domains, heap, queue, stack, ret, ac3_ret, last>>

\* A client that calls backtrack(dict()) itself after node consistency.
call_backtrack ==
    /\ pc = "node_done"
    /\ mode = "backtrack"
    /\ arg' = <<>>
    /\ pc' = "bt_call"
    /\ UNCHANGED <<crossword, mode, domains, heap, queue, stack, ret, ac3_ret, last>>

----------------------------------------------------------------------------
(* The helpers of backtrack.                                               *)

\* assignment_complete answering True once some variable is assigned.
assignment_complete_any(assignment) ==
    \E var \in crossword.variables : var \in DOMAIN assignment

assignment_complete(assignment) ==
    \A var \in crossword.variables : var \in DOMAIN assignment

\* consistent without the conflicting-characters check (lines 185-189).
consistent_no_overlap(assignment) ==
    /\ \A var \in DOMAIN assignment : var.length = Len(assignment[var])
    /\ Cardinality({assignment[var] : var \in DOMAIN assignment}) =
       Cardinality(DOMAIN assignment)

\* consistent without the distinct-values check (lines 191-192).
consistent_no_distinct(assignment) ==
    \A var \in DOMAIN assignment :
        /\ var.length = Len(assignment[var])
        /\ \A neighbor \in neighbors(var) :
              neighbor \in DOMAIN assignment =>
                  LET overlap == overlaps(var, neighbor)
                  IN  assignment[var][overlap[1] + 1] =
                      assignment[neighbor][overlap[2] + 1]

consistent(assignment) ==
    /\ \A var \in DOMAIN assignment :
          /\ var.length = Len(assignment[var])
          /\ \A neighbor \in neighbors(var) :
                neighbor \in DOMAIN assignment =>
                    LET overlap == overlaps(var, neighbor)
                    IN  assignment[var][overlap[1] + 1] =
                        assignment[neighbor][overlap[2] + 1]
    /\ Cardinality({assignment[var] : var \in DOMAIN assignment}) =
       Cardinality(DOMAIN assignment)

RECURSIVE neighbor_loop(_, _, _, _)
\* Lines 185-189 for `var`, its neighbors taken in the order `ns` from the
\* k-th on: "ok" when the loop ends, "False" at a conflicting character,
\* "IndexError" when the neighbor's word is too short for the overlap index
\* (word[overlap[0]] is in range, the length of word was checked at 182).
neighbor_loop(assignment, var, ns, k) ==
    IF k > Len(ns)
    THEN "ok"
    ELSE IF ns[k] \notin DOMAIN assignment
    THEN neighbor_loop(assignment, var, ns, k + 1)
    ELSE LET overlap == overlaps(var, ns[k])
         IN  IF overlap[2] >= Len(assignment[ns[k]])
             THEN "IndexError"
             ELSE IF assignment[var][overlap[1] + 1] #
                     assignment[ns[k]][overlap[2] + 1]
             THEN "False"
             ELSE neighbor_loop(assignment, var, ns, k + 1)

\* What lines 185-189 can do for `var`, over the orders of neighbors(var).
neighbor_outcomes(assignment, var) ==
    {neighbor_loop(assignment, var, ns, 1) : ns \in Orders(neighbors(var))}

\* consistent with `return True` inside the for loop (line 193 indented).
consistent_loop_first(assignment, items, k) ==
    IF k > Len(items)
    THEN {"True"}
    ELSE IF items[k].length # Len(assignment[items[k]])
    THEN {"False"}
    ELSE {IF r # "ok" THEN r ELSE "True" :
             r \in neighbor_outcomes(assignment, items[k])}

RECURSIVE consistent_loop(_, _, _)
\* What lines 178-193 can do on any assignment from the k-th item of
\* assignment.items() on, taken in the order `items`: the values returned,
\* or "IndexError".
consistent_loop(assignment, items, k) ==
    IF k > Len(items)
    THEN IF Cardinality({assignment[v] : v \in DOMAIN assignment}) #
            Cardinality(DOMAIN assignment)
         THEN {"False"}
         ELSE {"True"}
    ELSE IF items[k].length # Len(assignment[items[k]])
    THEN {"False"}
    ELSE UNION {IF r # "ok"
                THEN {r}
                ELSE consistent_loop(assignment, items, k + 1) :
                   r \in neighbor_outcomes(assignment, items[k])}

\* What consistent(assignment) can do on any assignment.  On the
\* assignments backtrack passes (every word has the length of its
\* variable) it is `consistent` above.
consistent_outcomes(assignment) ==
    UNION {consistent_loop(assignment, items, 1) :
              items \in Orders(DOMAIN assignment)}

\* words_ruled_out with `==` for `!=` at line 210: counts the words that fit.
words_ruled_out_fitting(var, assignment, word) ==
    LET nbrs == {v \in neighbors(var) : v \notin DOMAIN assignment}
        pairs == UNION {{<<n, c>> : c \in Dom(n)} : n \in nbrs}
    IN  Cardinality({p \in pairs :
            word[overlaps(var, p[1])[1] + 1] =
            p[2][overlaps(var, p[1])[2] + 1]})

\* words_ruled_out[word] of order_domain_values.
words_ruled_out(var, assignment, word) ==
    LET nbrs == {v \in neighbors(var) : v \notin DOMAIN assignment}
        pairs == UNION {{<<n, c>> : c \in Dom(n)} : n \in nbrs}
    IN  Cardinality({p \in pairs :
            word[overlaps(var, p[1])[1] + 1] #
            p[2][overlaps(var, p[1])[2] + 1]})

RECURSIVE sorted(_, _)
\* Python's sorted(list, key): stable, so of two elements with equal keys
\* the one that comes first in `list` comes first in the result.
sorted(list, key) ==
    IF list = <<>>
    THEN <<>>
    ELSE LET front == sorted(SubSeq(list, 1, Len(list) - 1), key)
             e == list[Len(list)]
             n == Cardinality({i \in 1..Len(front) : key[front[i]] <= key[e]})
         IN  SubSeq(front, 1, n) \o <<e>> \o SubSeq(front, n + 1, Len(front))

\* order_domain_values over every word of the vocabulary that has the
\* length of var, in place of self.domains[var].
order_domain_values_all(var, assignment) ==
    LET words == node_consistent(var, crossword.words)
        count == [word \in words |-> words_ruled_out(var, assignment, word)]
    IN  {sorted(p, count) : p \in Orders(words)}

\* order_domain_values that files the words under their counts, one word
\* per count, before sorting.
order_domain_values_by_count(var, assignment) ==
    LET count == [word \in Dom(var) |-> words_ruled_out(var, assignment, word)]
        filed == {CHOOSE word \in Dom(var) : count[word] = c :
                     c \in {count[word] : word \in Dom(var)}}
    IN  {sorted(p, count) : p \in Orders(filed)}

\* The lists order_domain_values can return: sorted() applied to the set
\* domains[var] in any of its iteration orders.
order_domain_values(var, assignment) ==
    LET count == [word \in Dom(var) |-> words_ruled_out(var, assignment, word)]
    IN  {sorted(p, count) : p \in Orders(Dom(var))}

\* select_unassigned_variable with max for min at line 227.
select_unassigned_variable_max(assignment) ==
    LET unassigned == crossword.variables \ DOMAIN assignment
        lowest_list == {v \in unassigned :
                           \A u \in unassigned :
                               Cardinality(Dom(v)) >= Cardinality(Dom(u))}
    IN  {v \in lowest_list :
            \A u \in lowest_list :
                Cardinality(neighbors(v)) >= Cardinality(neighbors(u))}

\* The variables select_unassigned_variable can return.
select_unassigned_variable(assignment) ==
    LET unassigned == crossword.variables \ DOMAIN assignment
        lowest_list == {v \in unassigned :
                           \A u \in unassigned :
                               Cardinality(Dom(v)) <= Cardinality(Dom(u))}
    IN  {v \in lowest_list :
            \A u \in lowest_list :
                Cardinality(neighbors(v)) >= Cardinality(neighbors(u))}

----------------------------------------------------------------------------
(* backtrack                                                               *)

\* A call returns `value` to its caller.
bt_return(value) ==
    /\ ret' = value
    /\ pc' = "bt_return"

\* Lines 244-248: entry of a call, up to the start of the for loop.
backtrack_enter ==
    /\ pc = "bt_call"
    /\ IF assignment_complete(arg)
       THEN /\ bt_return([kind |-> "assignment", value |-> arg])
            /\ UNCHANGED stack
       ELSE /\ \E var \in select_unassigned_variable(arg) :
               \E values \in order_domain_values(var, arg) :
                  stack' = Append(stack,
                      [assignment |-> arg, var |-> var, values |-> values,
                       new_assignment |-> arg, prev_domains |-> domains,
                       before |-> heap])
            /\ pc' = "bt_loop"
            /\ UNCHANGED ret
    /\ UNCHANGED <<crossword, mode, domains, heap, queue, arg, ac3_ret, last>>

\* backtrack with new_assignment = assignment at line 249: the word is
\* written into the caller's own mapping.
backtrack_try_no_copy ==
    /\ pc = "bt_loop"
    /\ stack # <<>>
    /\ LET top == stack[Len(stack)]
       IN  /\ top.values # <<>>
           /\ LET word == Head(top.values)
                  new_assignment == Put(top.assignment, top.var, word)
              IN  IF consistent(new_assignment)
                  THEN /\ stack' = [stack EXCEPT ![Len(stack)] =
                              [@ EXCEPT !.values = Tail(@),
                                        !.assignment = new_assignment,
                                        !.new_assignment = new_assignment,
                                        !.prev_domains = domains,
                                        !.before = heap]]
                       /\ queue' = [isSet |-> TRUE, list |-> <<>>,
                                    set |-> {<<x, top.var>> : x \in neighbors(top.var)}]
                       /\ pc' = "ac3_loop"
                  ELSE /\ stack' = [stack EXCEPT ![Len(stack)] =
                              [@ EXCEPT !.values = Tail(@),
                                        !.assignment = new_assignment,
                                        !.new_assignment = new_assignment]]
                       /\ UNCHANGED <<queue, pc>>
    /\ UNCHANGED <<crossword, mode, domains, heap, arg, ret, ac3_ret, last>>

\* Lines 248-255: the next word of the for loop; when the extended
\* assignment is consistent, snapshot the domains and call ac3 on the arcs
\* (x, var).  `before` records what the domains held at the snapshot.
backtrack_try ==
    /\ pc = "bt_loop"
    /\ stack # <<>>
    /\ LET top == stack[Len(stack)]
       IN  /\ top.values # <<>>
           /\ LET word == Head(top.values)
                  new_assignment == Put(top.assignment, top.var, word)
              IN  IF consistent(new_assignment)
                  THEN /\ stack' = [stack EXCEPT ![Len(stack)] =
                              [@ EXCEPT !.values = Tail(@),
                                        !.new_assignment = new_assignment,
                                        !.prev_domains = domains,
                                        !.before = heap]]
                       /\ queue' = [isSet |-> TRUE, list |-> <<>>,
                                    set |-> {<<x, top.var>> : x \in neighbors(top.var)}]
                       /\ pc' = "ac3_loop"
                  ELSE /\ stack' = [stack EXCEPT ![Len(stack)] =
                              [@ EXCEPT !.values = Tail(@),
                                        !.new_assignment = new_assignment]]
                       /\ UNCHANGED <<queue, pc>>
    /\ UNCHANGED <<crossword, mode, domains, heap, arg, ret, ac3_ret, last>>

\* backtrack with self.backtrack(assignment) at line 256: the call is
\* given the caller's assignment again.
backtrack_recurse_same ==
    /\ pc = "ac3_done"
    /\ stack # <<>>
    /\ arg' = stack[Len(stack)].assignment
    /\ pc' = "bt_call"
    /\ UNCHANGED <<crossword, mode, domains, heap, queue, stack, ret, ac3_ret, last>>

\* Line 256: the recursive call, whatever ac3 returned.
backtrack_recurse ==
    /\ pc = "ac3_done"
    /\ stack # <<>>
    /\ arg' = stack[Len(stack)].new_assignment
    /\ pc' = "bt_call"
    /\ UNCHANGED <<crossword, mode, domains, heap, queue, stack, ret, ac3_ret, last>>

\* Lines 257-259: the recursive call has returned to the call on top.
backtrack_resume ==
    /\ pc = "bt_return"
    /\ stack # <<>>
    /\ IF ret.kind # "None"
       THEN /\ stack' = SubSeq(stack, 1, Len(stack) - 1)
            /\ UNCHANGED <<domains, pc, ret>>
       ELSE /\ domains' = stack[Len(stack)].prev_domains
            /\ pc' = "bt_loop"
            /\ UNCHANGED <<stack, ret>>
    /\ UNCHANGED <<crossword, mode, heap, queue, arg, ac3_ret, last>>

\* backtrack returning its own assignment at line 260.
backtrack_exhausted_partial ==
    /\ pc = "bt_loop"
    /\ stack # <<>>
    /\ stack[Len(stack)].values = <<>>
    /\ stack' = SubSeq(stack, 1, Len(stack) - 1)
    /\ ret' = [kind |-> "assignment", value |-> stack[Len(stack)].assignment]
    /\ pc' = "bt_return"
    /\ UNCHANGED <<crossword, mode, domains, heap, queue, arg, ac3_ret, last>>

\* Line 260: the for loop is over.
backtrack_exhausted ==
    /\ pc = "bt_loop"
    /\ stack # <<>>
    /\ stack[Len(stack)].values = <<>>
    /\ stack' = SubSeq(stack, 1, Len(stack) - 1)
    /\ bt_return([kind |-> "None", value |-> <<>>])
    /\ UNCHANGED <<crossword, mode, domains, heap, queue, arg, ac3_ret, last>>

\* The outermost backtrack call has returned: solve returns its value.
finish ==
    /\ pc = "bt_return"
    /\ stack = <<>>
    /\ pc' = "done"
    /\ UNCHANGED <<crossword, mode, domains, heap, queue, stack, arg, ret, ac3_ret, last>>

----------------------------------------------------------------------------
(* A client that calls the methods of CrosswordCreator one by one.         *)

\* The assignments over the vocabulary.
assignments ==
    UNION {[S -> crossword.words] : S \in SUBSET crossword.variables}

\* The assignments that give variables words of their current domains.
assignments_in_domains ==
    {a \in assignments : \A v \in DOMAIN a : a[v] \in Dom(v)}

Called(op, args, value) ==
    last' = [op |-> op, args |-> args, value |-> value, before |-> heap,
             at |-> pc]

\* revise(x, y) on the current domains.
call_revise ==
    /\ mode = "client"
    /\ pc = "node_done"
    /\ \E x, y \in crossword.variables :
          /\ x # y
          /\ heap' = revise(x, y).heap
          /\ Called("revise", <<x, y>>,
                    IF revise(x, y).revised THEN "True" ELSE "False")
    /\ pc' = "called"
    /\ UNCHANGED <<crossword, mode, domains, queue, stack, arg, ret, ac3_ret>>

\* ac3() on the current domains: the call.
call_ac3 ==
    /\ mode = "client"
    /\ pc = "node_done"
    /\ \E q \in Orders(all_arcs) :
          queue' = [isSet |-> FALSE, list |-> q, set |-> {}]
    /\ pc' = "ac3_loop"
    /\ Called("ac3", <<>>, "running")
    /\ UNCHANGED <<crossword, mode, domains, heap, stack, arg, ret, ac3_ret>>

\* ac3() on the current domains: the return.
return_ac3 ==
    /\ mode = "client"
    /\ pc = "ac3_done"
    /\ pc' = "node_done"
    /\ last' = [last EXCEPT !.value = ac3_ret.full]
    /\ UNCHANGED <<crossword, mode, domains, heap, queue, stack, arg, ret, ac3_ret>>

\* consistent(assignment) on any assignment over the vocabulary.
call_consistent ==
    /\ mode = "client"
    /\ pc = "start"
    /\ \E assignment \in assignments :
       \E value \in consistent_outcomes(assignment) :
          Called("consistent", assignment, value)
    /\ pc' = "called"
    /\ UNCHANGED <<crossword, mode, domains, heap, queue, stack, arg, ret, ac3_ret>>

\* select_unassigned_variable(assignment) with a variable left to assign.
call_select_unassigned_variable ==
    /\ mode = "client"
    /\ pc = "node_done"
    /\ \E assignment \in assignments_in_domains :
          /\ DOMAIN assignment # crossword.variables
          /\ \E var \in select_unassigned_variable(assignment) :
                Called("select_unassigned_variable", assignment, var)
    /\ pc' = "called"
    /\ UNCHANGED <<crossword, mode, domains, heap, queue, stack, arg, ret, ac3_ret>>

\* order_domain_values(var, assignment) for an unassigned variable.
call_order_domain_values ==
    /\ mode = "client"
    /\ pc = "node_done"
    /\ \E assignment \in assignments_in_domains :
       \E var \in crossword.variables \ DOMAIN assignment :
       \E values \in order_domain_values(var, assignment) :
          Called("order_domain_values", <<var, assignment>>, values)
    /\ pc' = "called"
    /\ UNCHANGED <<crossword, mode, domains, heap, queue, stack, arg, ret, ac3_ret>>

----------------------------------------------------------------------------

Next ==
    \/ enforce_node_consistency
    \/ solve_ac3
    \/ ac3_iterate
    \/ ac3_exit
    \/ solve_backtrack
    \/ call_backtrack
    \/ backtrack_enter
    \/ backtrack_try
    \/ backtrack_recurse
    \/ backtrack_resume
    \/ backtrack_exhausted
    \/ finish

Spec == Init /\ [][Next]_vars

\* The largest vocabulary of the crosswords the client is given.
MaxCallWords == 3

CallVocabularies == {W \in SUBSET WordPool : Cardinality(W) <= MaxCallWords}

InitCalls ==
    /\ crossword \in [variables : Grids, words : CallVocabularies]
    /\ mode = "client"
    /\ domains = [var \in crossword.variables |-> var]
    /\ heap = [var \in crossword.variables |-> crossword.words]
    /\ pc = "start"
    /\ queue = EmptyList
    /\ stack = <<>>
    /\ arg = <<>>
    /\ ret = NoValue
    /\ ac3_ret = [full |-> "unset", seeded |-> "unset"]
    /\ last = NoCall(heap)

NextCalls ==
    \/ enforce_node_consistency
    \/ call_revise
    \/ call_ac3
    \/ ac3_iterate
    \/ ac3_exit
    \/ return_ac3
    \/ call_consistent
    \/ call_select_unassigned_variable
    \/ call_order_domain_values

SpecCalls == InitCalls /\ [][NextCalls]_vars

\* A client that calls enforce_node_consistency() and then ac3().
NextAc3 ==
    \/ enforce_node_consistency
    \/ call_ac3
    \/ ac3_iterate
    \/ ac3_exit

\* The two prunings, called in turn.
SpecPrune == InitCalls /\ [][NextAc3]_vars

\* A loop of ac3 that has a step to take takes it.
SpecAc3 ==
    InitCalls /\ [][NextAc3]_vars /\ WF_vars(ac3_iterate \/ ac3_exit)

\* solve() alone, on the crosswords of the client, running until it ends.
InitSolve ==
    /\ crossword \in [variables : Grids, words : CallVocabularies]
    /\ mode = "solve"
    /\ domains = [var \in crossword.variables |-> var]
    /\ heap = [var \in crossword.variables |-> crossword.words]
    /\ pc = "start"
    /\ queue = EmptyList
    /\ stack = <<>>
    /\ arg = <<>>
    /\ ret = NoValue
    /\ ac3_ret = [full |-> "unset", seeded |-> "unset"]
    /\ last = NoCall(heap)

NextSolve ==
    \/ enforce_node_consistency
    \/ solve_ac3
    \/ ac3_iterate
    \/ ac3_exit
    \/ solve_backtrack
    \/ backtrack_enter
    \/ backtrack_try
    \/ backtrack_recurse
    \/ backtrack_resume
    \/ backtrack_exhausted
    \/ finish

SpecSolve == InitSolve /\ [][NextSolve]_vars /\ WF_vars(NextSolve)

----------------------------------------------------------------------------
(* Properties of the solver.                                               *)

Top == stack[Len(stack)]

\* A backtrack call (or solve) has just returned an assignment.
Returned == pc \in {"bt_return", "done"} /\ ret.kind = "assignment"

\* solve() has returned.
SolveDone == mode = "solve" /\ pc = "done"

\* The full ac3() of solve (line 93) has just returned.
FullAc3Done == mode = "solve" /\ pc = "ac3_done" /\ stack = <<>>

\* The complete assignments over the vocabulary that satisfy the length,
\* overlap and distinctness constraints.
Solutions ==
    {a \in [crossword.variables -> crossword.words] :
        /\ \A v \in crossword.variables : Len(a[v]) = v.length
        /\ \A x, y \in crossword.variables :
              (x # y /\ overlaps(x, y) # None) =>
                  a[x][overlaps(x, y)[1] + 1] = a[y][overlaps(x, y)[2] + 1]
        /\ \A x, y \in crossword.variables : x # y => a[x] # a[y]}

\* Every word of domain(x) has a partner in domain(y), for every arc (x, y).
ArcConsistent ==
    \A x, y \in crossword.variables :
        (x # y /\ overlaps(x, y) # None) =>
            \A wx \in Dom(x) : \E wy \in Dom(y) :
                wx[overlaps(x, y)[1] + 1] = wy[overlaps(x, y)[2] + 1]

\* C1: in every assignment returned by solve() or backtrack(), the words of
\* two overlapping variables carry the same letter at the overlap indices.
C1_OverlapsAgree ==
    Returned =>
        \A x, y \in DOMAIN ret.value :
            (x # y /\ overlaps(x, y) # None) =>
                ret.value[x][overlaps(x, y)[1] + 1] =
                ret.value[y][overlaps(x, y)[2] + 1]

C1_Witness ==
    /\ pc = "done"
    /\ ret.kind = "assignment"
    /\ \E x, y \in DOMAIN ret.value : x # y /\ overlaps(x, y) # None
    /\ \E v \in crossword.variables : Cardinality(node_consistent(v, crossword.words)) > 1

\* C2: in every assignment returned by solve() or backtrack(), no word is
\* assigned to two different variables.
C2_WordsDistinct ==
    Returned =>
        \A x, y \in DOMAIN ret.value : x # y => ret.value[x] # ret.value[y]

C2_Witness ==
    /\ pc = "done"
    /\ ret.kind = "assignment"
    /\ \E x, y \in DOMAIN ret.value : x # y /\ x.length = y.length

\* C3: every assignment returned by solve() maps each variable of the grid
\* to a word of the vocabulary that has the variable's length.
C3_WordsFit ==
    (SolveDone /\ ret.kind = "assignment") =>
        \A v \in crossword.variables :
            /\ v \in DOMAIN ret.value
            /\ ret.value[v] \in crossword.words
            /\ Len(ret.value[v]) = v.length

C3_Witness ==
    /\ SolveDone
    /\ ret.kind = "assignment"
    /\ Cardinality(crossword.variables) > 1
    /\ \E v \in crossword.variables : \E w \in crossword.words : Len(w) # v.length

\* C4: a backtrack call returns None or an assignment with an entry for
\* every variable of the grid, never a partial assignment.
C4_NoneOrComplete ==
    (pc = "bt_return") =>
        \/ ret.kind = "None"
        \/ ret.kind = "assignment" /\ DOMAIN ret.value = crossword.variables

C4_Witness ==
    /\ pc = "bt_return"
    /\ ret.kind = "None"
    /\ stack # <<>>
    /\ DOMAIN Top.new_assignment # {}

\* C5: when a candidate branch of backtrack has failed and the loop moves
\* on, every domain holds exactly the words it held when the branch began.
C5_FailedBranchRestored ==
    (pc = "bt_loop" /\ stack # <<>>) =>
        \A v \in crossword.variables : Dom(v) = Top.before[Top.prev_domains[v]]

\* C6: when the full ac3() of solve returns False, solve returns None and
\* backtrack is never invoked.
C6_BacktrackSkipped ==
    (mode = "solve" /\ ac3_ret.full = "False") =>
        \/ pc = "ac3_done" /\ stack = <<>>
        \/ pc = "done" /\ ret.kind = "None"

\* What solve does after a failed ac3(): it still calls backtrack(dict());
\* that call tries no word and makes no recursive call, and solve returns
\* None.
C6_FailedAc3GivesNone ==
    (mode = "solve" /\ ac3_ret.full = "False") =>
        /\ pc \in {"ac3_done", "bt_call", "bt_loop", "bt_return", "done"}
        /\ pc = "bt_call" => arg = <<>>
        /\ stack # <<>> => Len(stack) = 1 /\ Top.values = <<>>
        /\ ac3_ret.seeded = "unset"
        /\ pc \in {"bt_return", "done"} => ret.kind = "None"

\* C7: solve() returns an assignment whenever the grid and the vocabulary
\* admit a valid complete assignment, and None only when they admit none.
C7_SolveComplete ==
    /\ (mode = "solve" /\ pc = "raised") => Solutions = {}
    /\ SolveDone =>
          /\ ret.kind \in {"None", "assignment"}
          /\ ret.kind = "None" <=> Solutions = {}

C7_Witness ==
    /\ SolveDone
    /\ ret.kind = "assignment"
    /\ Cardinality(crossword.variables) > 2

\* C8: when ac3() called with no initial arcs returns True, every word of
\* domain(x) has a word of domain(y) agreeing at the overlap, for every
\* ordered pair (x, y) with an overlap.
C8_ArcConsistent ==
    (FullAc3Done /\ ac3_ret.full = "True") => ArcConsistent

C8_Witness ==
    /\ FullAc3Done
    /\ ac3_ret.full = "True"
    /\ \E v \in crossword.variables :
          Dom(v) # {} /\ Dom(v) # node_consistent(v, crossword.words)

\* C9: ac3 returns True exactly when no domain is empty at its end, and
\* False when one or more domains are empty, also those empty beforehand.
C9_TrueIffNoEmptyDomain ==
    (pc = "ac3_done") =>
        (ac3_ret[ac3_site] = "True" <=>
            \A v \in crossword.variables : Dom(v) # {})

\* C10: when the vocabulary has no word of the length of some variable v,
\* domain(v) is empty after enforce_node_consistency() and ac3(), and
\* solve() returns None.
C10_MissingLength ==
    \A v \in crossword.variables :
        (\A w \in crossword.words : Len(w) # v.length) =>
            /\ FullAc3Done => Dom(v) = {}
            /\ SolveDone => ret.kind = "None"

C10_Witness ==
    /\ SolveDone
    /\ crossword.words # {}
    /\ \E v \in crossword.variables :
          /\ \A w \in crossword.words : Len(w) # v.length
          /\ \E w \in crossword.words : Len(w) > v.length

\* C11: no operation of the core ends in a raised error; ac3 called with
\* the arcs backtrack supplies runs to completion and returns True or False.
C11_NoRaise == pc # "raised"

\* C19: when the inference step of backtrack for var := word has ended,
\* every word left in the domain of each neighbor n of var agrees with
\* `word` at the overlap of var and n.
C19_InferencePropagated ==
    (pc = "ac3_done" /\ stack # <<>>) =>
        \A n \in neighbors(Top.var) :
        \A c \in Dom(n) :
            Top.new_assignment[Top.var][overlaps(Top.var, n)[1] + 1] =
            c[overlaps(Top.var, n)[2] + 1]

\* C21: the step of ac3 in which a revision empties a domain is its last:
\* ac3 returns False at once, with its queue dropped as it stood, and the
\* step changes no domain but the one it emptied.
C21_EmptyStopsAc3 ==
    [][(pc = "ac3_loop" /\
        \E r \in DOMAIN heap : heap[r] # {} /\ heap'[r] = {}) =>
          /\ pc' = "ac3_done"
          /\ ac3_ret'[ac3_site] = "False"
          /\ queue' = EmptyList
          /\ \E r \in DOMAIN heap : heap' = [heap EXCEPT ![r] = {}]]_vars

\* ac3 has returned False on a domain it emptied, leaving arcs unsettled.
C21_Witness ==
    /\ pc = "ac3_done"
    /\ ac3_ret[ac3_site] = "False"
    /\ \E v \in crossword.variables :
          Dom(v) = {} /\ node_consistent(v, crossword.words) # {}
    /\ ~ArcConsistent

\* C22: in ac3() with no initial arcs the queue never holds an arc twice,
\* and after a revision that shrinks domain(x) to a non-empty set it holds
\* (x, z) and (z, x) for every neighbor z of x.
C22_Requeued ==
    /\ [](\A i, j \in 1..Len(queue.list) :
             queue.list[i] = queue.list[j] => i = j)
    /\ [][(pc = "ac3_loop" /\ ~queue.isSet /\ pc' = "ac3_loop") =>
            \A x \in crossword.variables :
                heap'[domains[x]] # heap[domains[x]] =>
                    \A z \in neighbors(x) :
                        /\ <<x, z>> \in Range(queue'.list)
                        /\ <<z, x>> \in Range(queue'.list)]_vars

\* A shrunk, non-empty domain whose arcs are all queued: the arc whose
\* revision shrank it had been popped, so it was queued again.
C22_Witness ==
    /\ pc = "ac3_loop"
    /\ ~queue.isSet
    /\ \E x \in crossword.variables :
          /\ Dom(x) # {}
          /\ Dom(x) # node_consistent(x, crossword.words)
          /\ neighbors(x) # {}
          /\ \A z \in neighbors(x) :
                <<x, z>> \in Range(queue.list) /\ <<z, x>> \in Range(queue.list)

\* The backtrack calls in progress: the frames, and the call being entered.
Depth == Len(stack) + (IF pc = "bt_call" THEN 1 ELSE 0)

\* C24: solve() returns, and the backtrack calls in progress never exceed
\* the number of variables plus one: the k-th nested call holds an
\* assignment of k - 1 variables.
C24_SolveTerminates ==
    /\ <>(pc = "done")
    /\ [](Depth <= Cardinality(crossword.variables) + 1)
    /\ [](\A k \in 1..Len(stack) :
             Cardinality(DOMAIN stack[k].assignment) = k - 1)
    /\ [](pc = "bt_call" => Cardinality(DOMAIN arg) = Len(stack))

\* The call with every variable assigned is being entered, at full depth.
C24_Witness ==
    /\ pc = "bt_call"
    /\ mode = "solve"
    /\ Cardinality(crossword.variables) > 1
    /\ Depth = Cardinality(crossword.variables) + 1

\* C25: every domain stays within the vocabulary; a step leaves it a subset
\* of what it was, except the restore of line 259, after which it holds
\* what it held when the snapshot of line 254 was taken.
C25_DomainsOnlyShrink ==
    [][\A v \in crossword.variables :
          /\ heap'[domains'[v]] \subseteq crossword.words
          /\ IF pc = "bt_return" /\ stack # <<>> /\ ret.kind = "None"
             THEN heap'[domains'[v]] = Top.before[Top.prev_domains[v]]
             ELSE heap'[domains'[v]] \subseteq heap[domains[v]]]_vars

\* C26: no step changes the assignment of a backtrack call in progress, so
\* after a recursive call has failed the caller's assignment has the entries
\* it had before; each candidate is the caller's assignment and one entry.
C26_CallerAssignmentKept ==
    /\ [][\A k \in 1..Len(stack) :
             k <= Len(stack') => stack'[k].assignment = stack[k].assignment]_vars
    /\ [](\A k \in 1..Len(stack) :
             /\ stack[k].var \notin DOMAIN stack[k].assignment
             /\ \A v \in DOMAIN stack[k].assignment :
                   /\ v \in DOMAIN stack[k].new_assignment
                   /\ stack[k].new_assignment[v] = stack[k].assignment[v])

\* A recursive call has just returned None to a caller that holds an
\* assignment with entries.
C26_Witness ==
    /\ pc = "bt_return"
    /\ ret.kind = "None"
    /\ stack # <<>>
    /\ DOMAIN Top.assignment # {}
    /\ Top.new_assignment # Top.assignment

\* C27: in solve(), no step taken after the full ac3() has returned changes
\* a domain: through the whole search every domain holds what it held at
\* the end of the full ac3().
C27_InferenceRemovesNothing ==
    [][(mode = "solve" /\ ac3_ret.full # "unset") =>
          \A v \in crossword.variables :
              heap'[domains'[v]] = heap[domains[v]]]_vars

\* In solve(), an inference step has ended next to a neighbor with several
\* words.
C27_Witness ==
    /\ mode = "solve"
    /\ pc = "ac3_done"
    /\ stack # <<>>
    /\ \E n \in neighbors(Top.var) : Cardinality(Dom(n)) > 1

----------------------------------------------------------------------------
(* Properties of the methods called one by one.                            *)

\* The words of x in `store` that have a word of y in `store` with the same
\* character at the overlap of x and y.
Supported(store, x, y) ==
    {x_word \in store[domains[x]] :
        \E y_word \in store[domains[y]] :
            x_word[overlaps(x, y)[1] + 1] = y_word[overlaps(x, y)[2] + 1]}

\* C12: revise(x, y) removes from domain(x) exactly the words with no word
\* in domain(y) carrying the same character at the overlap, changes no other
\* domain, and returns True iff it removed a word; with no overlap it
\* changes nothing and returns False.
C12_ReviseExact ==
    last.op = "revise" =>
        LET x == last.args[1]
            y == last.args[2]
        IN  /\ overlaps(x, y) # None =>
                  heap = [last.before EXCEPT
                             ![domains[x]] = Supported(last.before, x, y)]
            /\ overlaps(x, y) = None =>
                  heap = last.before /\ last.value = "False"
            /\ last.value = "True" <=> heap # last.before
            /\ last.value \in {"True", "False"}

\* revise removed a word of an overlapping pair and kept another.
C12_Witness ==
    /\ last.op = "revise"
    /\ last.value = "True"
    /\ overlaps(last.args[1], last.args[2]) # None
    /\ heap[domains[last.args[1]]] # {}

\* C13: enforce_node_consistency() leaves in every domain exactly the words
\* that were in it and have the length of the variable.
C13_NodeConsistencyExact ==
    last.op = "enforce_node_consistency" =>
        \A v \in crossword.variables :
            heap[domains[v]] =
                {word \in last.before[domains[v]] : Len(word) = v.length}

\* A first call removed a word and kept another.
C13_Witness ==
    /\ last.op = "enforce_node_consistency"
    /\ last.at = "start"
    /\ \E v \in crossword.variables :
          /\ heap[domains[v]] # last.before[domains[v]]
          /\ heap[domains[v]] # {}

\* C14: a second enforce_node_consistency(), on a store a first one
\* produced, changes no domain.
C14_NodeConsistencyIdempotent ==
    (last.op = "enforce_node_consistency" /\ last.at = "node_done") =>
        heap = last.before

\* A second call on a store from which the first had removed words.
C14_Witness ==
    /\ last.op = "enforce_node_consistency"
    /\ last.at = "node_done"
    /\ \E v \in crossword.variables :
          /\ last.before[domains[v]] # crossword.words
          /\ last.before[domains[v]] # {}

\* `store` is arc-consistent: every word of x has a partner in y, for every
\* arc (x, y).
ArcConsistentStore(store) ==
    \A x, y \in crossword.variables :
        (x # y /\ overlaps(x, y) # None) =>
            store[domains[x]] = Supported(store, x, y)

FitsAgreesDistinct(a) ==
    /\ \A v \in DOMAIN a : Len(a[v]) = v.length
    /\ \A x, y \in DOMAIN a :
          (x # y /\ overlaps(x, y) # None) =>
              a[x][overlaps(x, y)[1] + 1] = a[y][overlaps(x, y)[2] + 1]
    /\ \A x, y \in DOMAIN a : x # y => a[x] # a[y]

\* C16: consistent(assignment) returns True iff every assigned word has the
\* length of its variable, every two assigned variables that overlap agree
\* at the overlap, and the assigned words are pairwise distinct; unassigned
\* neighbors impose no constraint.
C16_ConsistentIff ==
    last.op = "consistent" =>
        (last.value = "True" <=> FitsAgreesDistinct(last.args))

\* True for two overlapping assigned variables next to an unassigned one.
C16_Witness ==
    /\ last.op = "consistent"
    /\ last.value = "True"
    /\ DOMAIN last.args # crossword.variables
    /\ \E x, y \in DOMAIN last.args : x # y /\ overlaps(x, y) # None

\* C17: select_unassigned_variable(assignment), with a variable left to
\* assign, returns a variable outside the assignment whose domain is the
\* smallest among the unassigned variables and whose neighbor count is the
\* largest among the unassigned variables with a domain of that size.
C17_SelectMinDomainMaxDegree ==
    last.op = "select_unassigned_variable" =>
        LET unassigned == crossword.variables \ DOMAIN last.args
            size(v) == Cardinality(last.before[domains[v]])
        IN  /\ last.value \in unassigned
            /\ \A u \in unassigned : size(last.value) <= size(u)
            /\ \A u \in unassigned :
                  size(u) = size(last.value) =>
                      Cardinality(neighbors(last.value)) >=
                      Cardinality(neighbors(u))

\* The choice was made by both rules: one unassigned variable has a larger
\* domain, another a domain of the same size and fewer neighbors.
C17_Witness ==
    /\ last.op = "select_unassigned_variable"
    /\ \E u, w \in crossword.variables \ DOMAIN last.args :
          /\ Cardinality(Dom(u)) > Cardinality(Dom(last.value))
          /\ Cardinality(Dom(w)) = Cardinality(Dom(last.value))
          /\ Cardinality(neighbors(w)) < Cardinality(neighbors(last.value))

\* C18: order_domain_values(var, assignment) returns a permutation of
\* domain(var): each of its words once and no other word.
C18_OrderIsPermutation ==
    last.op = "order_domain_values" =>
        /\ Range(last.value) = last.before[domains[last.args[1]]]
        /\ Len(last.value) = Cardinality(last.before[domains[last.args[1]]])

\* A list of several words, two of them ruling out equally many.
C18_Witness ==
    /\ last.op = "order_domain_values"
    /\ \E i, j \in 1..Len(last.value) :
          /\ i # j
          /\ words_ruled_out(last.args[1], last.args[2], last.value[i]) =
             words_ruled_out(last.args[1], last.args[2], last.value[j])

\* The eliminated-count of word w for var: the pairs (n, c) of an unassigned
\* neighbor n of var and a word c of its domain in `store` that disagrees
\* with w at the overlap of var and n.
EliminatedCount(store, var, a, w) ==
    Cardinality(
        {p \in (neighbors(var) \ DOMAIN a) \X crossword.words :
            /\ p[2] \in store[domains[p[1]]]
            /\ w[overlaps(var, p[1])[1] + 1] #
               p[2][overlaps(var, p[1])[2] + 1]})

\* C20: the list order_domain_values(var, assignment) returns is in
\* ascending order of eliminated-count, the count taken over the unassigned
\* neighbors of var only.
C20_OrderAscending ==
    last.op = "order_domain_values" =>
        \A i, j \in 1..Len(last.value) :
            i < j =>
                EliminatedCount(last.before, last.args[1], last.args[2],
                                last.value[i]) <=
                EliminatedCount(last.before, last.args[1], last.args[2],
                                last.value[j])

\* Two words listed with different counts, while an assigned neighbor holds
\* a word that disagrees with the first of them.
C20_Witness ==
    /\ last.op = "order_domain_values"
    /\ \E i, j \in 1..Len(last.value) :
          EliminatedCount(last.before, last.args[1], last.args[2],
                          last.value[i]) <
          EliminatedCount(last.before, last.args[1], last.args[2],
                          last.value[j])
    /\ \E n \in neighbors(last.args[1]) \cap DOMAIN last.args[2] :
       \E c \in Dom(n) :
          last.value[1][overlaps(last.args[1], n)[1] + 1] #
          c[overlaps(last.args[1], n)[2] + 1]

\* C23: ac3() terminates: a running loop reaches its return, and an arc
\* enters the queue only in a step that takes a word out of a domain.
C23_Ac3Terminates ==
    /\ (pc = "ac3_loop") ~> (pc = "ac3_done")
    /\ [][(pc = "ac3_loop" /\ pc' = "ac3_loop" /\
           ~(Range(queue'.list) \subseteq Range(queue.list))) =>
             \E r \in DOMAIN heap :
                 heap'[r] # heap[r] /\ heap'[r] \subseteq heap[r]]_vars

\* A run of ac3() that revised domains has returned True.
C23_Witness ==
    /\ pc = "ac3_done"
    /\ last.op = "ac3"
    /\ ac3_ret.full = "True"
    /\ heap # last.before

\* The complete assignments that draw each word from its domain in `store`
\* and meet the length, overlap and distinctness constraints.
ValidAssignments(store) ==
    {a \in [crossword.variables -> crossword.words] :
        /\ \A v \in crossword.variables : a[v] \in store[domains[v]]
        /\ FitsAgreesDistinct(a)}

\* C28: enforce_node_consistency and ac3 remove no word that a variable
\* takes in a valid complete assignment: each of their steps
\* leaves the set of valid complete assignments drawn from the domains as
\* it was.
C28_SoundPruning ==
    [][(heap' # heap \/ domains' # domains) =>
          ValidAssignments(heap') = ValidAssignments(heap)]_vars

\* ac3() has removed words from a crossword of several variables that has a
\* valid complete assignment.
C28_Witness ==
    /\ last.op = "ac3"
    /\ pc = "ac3_done"
    /\ heap # last.before
    /\ Cardinality(crossword.variables) > 1
    /\ ValidAssignments(heap) # {}

\* C29: in solve(), the assignment given to a recursive backtrack call is
\* consistent, and every word the for loop of a call has yet to choose is
\* in the domain of the variable of the call.
C29_RecursiveArgumentConsistent ==
    (mode = "solve" /\ stack # <<>>) =>
        /\ pc = "bt_call" =>
              arg = Top.new_assignment /\ FitsAgreesDistinct(arg)
        /\ \A k \in 1..Len(stack) :
              Range(stack[k].values) \subseteq Dom(stack[k].var)
        /\ \A k \in 1..Len(stack) :
              stack[k].new_assignment # stack[k].assignment =>
                  stack[k].new_assignment[stack[k].var] \in Dom(stack[k].var)

\* In solve(), a recursive call is being entered from a nested call.
C29_Witness ==
    /\ mode = "solve"
    /\ pc = "bt_call"
    /\ Len(stack) > 1
    /\ Cardinality(Dom(Top.var)) > 1

====
